---- MODULE Spec2Model ----
(***************************************************************************)
(* HestiaSDK connectivity subsystem: the Wi-Fi guard and the MQTT guard of *)
(* HestiaNetSDK.cpp, the HAIoTBridge entities, and the communication       *)
(* sequence declared in HestiaCore.h and driven by the Virgo loop().       *)
(* Time is in milliseconds.  A timestamp t the code keeps (lastAttempt,     *)
(* lastReset, lastScan) is only ever read as millis() - t, and is held     *)
(* here as that difference (sinceAttempt, sinceReset, sinceScan), which    *)
(* stops growing once it is past every threshold the code compares it to.  *)
(***************************************************************************)
EXTENDS Integers, Sequences, FiniteSets, TLC

\* ------------------------------------------------- program constants (ms)
ScanCooldown == 30000
ScanAfterTries == 5
AntiSpamWindow == 8000
ResetPeriod == 5000
ResetSettle == 50
BackoffBase == 100
BackoffMaxTry == 5
BackoffCeiling == 10000
JitterMax == 50
InitSettle == 10
Uint8Mod == 256

WL_CONNECTED == "WL_CONNECTED"
WL_DISCONNECTED == "WL_DISCONNECTED"

\* The values random(0, 50) is sampled at: both ends of its range.
Jitters == {0, JitterMax - 1}

\* Steps by which millis() advances between two calls.
Steps == {1000}

Min(a, b) == IF a < b THEN a ELSE b

\* millis() - t after d more milliseconds; past cap it is past every threshold
\* the code compares it to, and is held at cap + 1.
Older(age, d, cap) == Min(age + d, cap + 1)

VARIABLES
  wifiStatus,   \* WiFi.status()
  begun,        \* WiFi.begin() has been issued since boot
  everReset,    \* the radio driver has been reset since boot
  wifiGuard,    \* the static locals of tryWiFiConnectNonBlocking_V2
  wifiCall,     \* the last call of the Wi-Fi guard: status seen, result, radio operations
  clientConnected,  \* client.connected()
  mqttGuard,    \* the static locals of tryMQTTConnectNonBlocking
  mqttCall,     \* the last call of the MQTT guard: what it saw, result, client operations
  core,         \* the communication sequence of HestiaCore
  mqttFlush,    \* HestiaNet::mqttFlush, the retained-message flush is on
  callbackInstalled,  \* client.onMessage(messageReceived) has been called
  BridgeRegistry,     \* HestiaCore::BridgeRegistry, the entities in registration order
  coreCall,     \* the last pass of loop(): what CoreComm() did, what newSeqComm() returned
  hist,         \* per attach cycle: ready edges seen, setHAInitDone calls, announcements
  preferences,  \* the NVS namespace "Pref": the value stored under each key
  bridgeCall,   \* the last HAIoTBridge method called: its result and what it issued
  g_discoveryJson,  \* HestiaNet::g_discoveryJson, the announcement payload loaded
  discoveryCall,    \* the last call of MQTTDiscovery(): what it saw and what it published
  announced,    \* calls of MQTTDiscovery() by CoreComm() since the session was last attached,
                \* in the specifications that count them
  suspended,    \* HestiaNet::disconnectMQTT() has been called since boot
  iotCredentials,   \* the parameters iot_user and iot_pass
  otaMode,      \* "idle", "serving" inside HestiaOTA_Web_Start(), "restarted" by ESP.restart()
  loginAttempts,    \* the static loginAttempts of HestiaOTA.cpp
  updateBegun,  \* Update.begin() has been called for the upload in progress
  otaCall,      \* the last request the OTA web server handled: what it saw, sent and issued
  otaHist       \* since HestiaOTA_Web_Start(): a login has succeeded, /login posts failed

linkVars == <<wifiStatus, begun, everReset, wifiGuard, wifiCall>>
sessionVars == <<clientConnected, mqttGuard, mqttCall>>
commVars == <<core, mqttFlush, callbackInstalled, BridgeRegistry, coreCall, hist>>
bridgeVars == <<preferences, bridgeCall>>
announceVars == <<g_discoveryJson, discoveryCall, announced>>
otaVars == <<suspended, iotCredentials, otaMode, loginAttempts, updateBegun, otaCall, otaHist>>
vars == <<linkVars, sessionVars, commVars, bridgeVars, announceVars, otaVars>>

\* --------------------------------------------------------------- Wi-Fi guard

Pow2(n) == 2 ^ n

\* delayNext after tryCount has been incremented (a mutant: no saturation).
WiFiBackoffNoCeiling(tryCount, jitter) == (BackoffBase * Pow2(tryCount)) + jitter

WiFiBackoff(tryCount, jitter) ==
  IF tryCount <= BackoffMaxTry
    THEN (BackoffBase * Pow2(tryCount)) + jitter
    ELSE BackoffCeiling

\* Gate (a) and gate (b) of the anti-spam protection: TRUE when the call returns
\* false without a new attempt (a mutant: gate (a) dropped).
WiFiGatedOnlyBackoff(g) == g.sinceAttempt < g.delayNext

WiFiGated(g) ==
  \/ g.connecting /\ (g.sinceAttempt < AntiSpamWindow)
  \/ g.sinceAttempt < g.delayNext

\* millis() advances by d: every millis() - t grows by d.
WiFiGuardLater(g, d) ==
  [g EXCEPT !.sinceAttempt = Older(@, d, BackoffCeiling),
            !.sinceReset = Older(@, d, ResetPeriod),
            !.sinceScan = Older(@, d, ScanCooldown)]

\* The same for the MQTT guard's one timestamp.
MQTTGuardLater(g, d) == [g EXCEPT !.sinceAttempt = Older(@, d, BackoffCeiling)]

\* What the call returns when it has issued WiFi.begin() (a mutant: true).
WiFiAttemptReturnTrue == TRUE

WiFiAttemptReturn == FALSE

\* The driver reset done at every attempt (a mutant).
ResetDueAlways(g) == TRUE

\* Step 5: more than 5000 ms since the last driver reset.
ResetDue(g) == g.sinceReset > ResetPeriod

\* Steps 5 to 8: driver reset when due (with its delay(50)), WiFi.begin, backoff update.
WiFiAttempt(g, jitter) ==
  LET doReset == ResetDue(g)
      g2 == IF doReset
              THEN [WiFiGuardLater(g, ResetSettle) EXCEPT !.sinceReset = 0]
              ELSE g
      n == (g.tryCount + 1) % Uint8Mod
  IN [g |-> [g2 EXCEPT !.connecting = TRUE,
                       !.tryCount = n,
                       !.delayNext = WiFiBackoff(n, jitter),
                       !.sinceAttempt = 0],
      ret |-> WiFiAttemptReturn,
      ops |-> IF doReset THEN {"reset", "begin"} ELSE {"begin"},
      dt |-> IF doReset THEN ResetSettle ELSE 0]

\* The scan cooldown left out (a mutant).
ScanCoolingDownNever(g) == FALSE

\* Step 2: the SSID was missing at the last scan, less than 30000 ms ago.
ScanCoolingDown(g) == ~g.ssidVisible /\ (g.sinceScan < ScanCooldown)

\* One call of the guard with WiFi.status() = st; found is the outcome of the
\* scan, should one run, and jitter the value random(0, 50) gives.  dt is the
\* time the call takes.
tryWiFiConnectNonBlocking_V2(g, st, found, jitter) ==
  IF st = WL_CONNECTED
    THEN [g |-> [g EXCEPT !.tryCount = 0, !.delayNext = BackoffBase, !.connecting = FALSE],
          ret |-> TRUE, ops |-> {}, dt |-> 0]
  ELSE IF ScanCoolingDown(g)
    THEN [g |-> g, ret |-> FALSE, ops |-> {}, dt |-> 0]
  ELSE
    LET doScan == g.tryCount >= ScanAfterTries /\ (g.sinceScan > ScanCooldown)
        g1 == IF doScan
                THEN [g EXCEPT !.sinceScan = 0,
                               !.ssidVisible = found,
                               !.tryCount = IF found THEN 0 ELSE @]
                ELSE g
        scanned == IF doScan THEN {"scan"} ELSE {}
    IN IF doScan /\ ~found
         THEN [g |-> g1, ret |-> FALSE, ops |-> scanned, dt |-> 0]
       ELSE IF WiFiGated(g1)
         THEN [g |-> g1, ret |-> FALSE, ops |-> scanned, dt |-> 0]
       ELSE LET a == WiFiAttempt(g1, jitter)
            IN [a EXCEPT !.ops = @ \cup scanned]

WiFiGuardInit ==
  [sinceAttempt |-> 0, sinceReset |-> 0, tryCount |-> 0, delayNext |-> BackoffBase,
   connecting |-> FALSE, ssidVisible |-> TRUE, sinceScan |-> 0]

NoWiFiCall == [st |-> WL_DISCONNECTED, ret |-> FALSE, ops |-> {}]

\* The guard is called: HestiaNet::tryWiFiConnectNonBlocking().
WiFiPoll ==
  \E found \in BOOLEAN, jitter \in Jitters :
    LET r == tryWiFiConnectNonBlocking_V2(wifiGuard, wifiStatus, found, jitter)
    IN /\ wifiGuard' = r.g
       /\ wifiCall' = [st |-> wifiStatus, ret |-> r.ret, ops |-> r.ops]
       /\ begun' = (begun \/ "begin" \in r.ops)
       /\ everReset' = (everReset \/ "reset" \in r.ops)
       /\ mqttGuard' = MQTTGuardLater(mqttGuard, r.dt)
       /\ UNCHANGED <<wifiStatus, clientConnected, mqttCall, commVars, bridgeVars, announceVars, otaVars>>

\* ---------------------------------------------------------------- MQTT guard

\* nextDelay after tryCount has been incremented (a mutant: saturates one try late).
MQTTBackoffLate(tryCount, jitter) ==
  IF tryCount <= BackoffMaxTry + 1
    THEN (BackoffBase * Pow2(tryCount)) + jitter
    ELSE BackoffCeiling

MQTTBackoff(tryCount, jitter) ==
  IF tryCount <= BackoffMaxTry
    THEN (BackoffBase * Pow2(tryCount)) + jitter
    ELSE BackoffCeiling

\* Step 1 done at every call (a mutant).
MQTTInitEveryCall(g) ==
  [g |-> [MQTTGuardLater(g, InitSettle) EXCEPT !.initialized = TRUE],
   ops |-> {"config"}, dt |-> InitSettle]

\* Step 1: client.setKeepAlive, setCleanSession, begin, once; with its delay(10).
MQTTInitOnce(g) ==
  IF g.initialized
    THEN [g |-> g, ops |-> {}, dt |-> 0]
    ELSE [g |-> [MQTTGuardLater(g, InitSettle) EXCEPT !.initialized = TRUE],
          ops |-> {"config"}, dt |-> InitSettle]

\* What the call returns when client.connect() has just succeeded (a mutant: true).
MQTTJustConnectedTrue == TRUE

MQTTJustConnected == FALSE

\* Steps 4 and 5 without the backoff gate of step 3 (a mutant).
MQTTReconnectUngated(g, ok, jitter) ==
  IF ok
    THEN [g |-> [g EXCEPT !.sinceAttempt = 0, !.wasConnected = TRUE,
                          !.tryCount = 0, !.nextDelay = BackoffBase],
          ret |-> MQTTJustConnected, ops |-> {"connect", "connected"}, conn |-> TRUE]
  ELSE LET n == (g.tryCount + 1) % Uint8Mod
       IN [g |-> [g EXCEPT !.sinceAttempt = 0, !.wasConnected = FALSE,
                           !.tryCount = n, !.nextDelay = MQTTBackoff(n, jitter)],
           ret |-> FALSE, ops |-> {"connect", "failed"}, conn |-> FALSE]

\* Steps 3 to 5, the session being down: backoff gate, client.connect, backoff update.
MQTTReconnect(g, ok, jitter) ==
  IF g.sinceAttempt < g.nextDelay
    THEN [g |-> [g EXCEPT !.wasConnected = FALSE], ret |-> FALSE, ops |-> {}, conn |-> FALSE]
  ELSE IF ok
    THEN [g |-> [g EXCEPT !.sinceAttempt = 0, !.wasConnected = TRUE,
                          !.tryCount = 0, !.nextDelay = BackoffBase],
          ret |-> MQTTJustConnected, ops |-> {"connect", "connected"}, conn |-> TRUE]
  ELSE LET n == (g.tryCount + 1) % Uint8Mod
       IN [g |-> [g EXCEPT !.sinceAttempt = 0, !.wasConnected = FALSE,
                           !.tryCount = n, !.nextDelay = MQTTBackoff(n, jitter)],
           ret |-> FALSE, ops |-> {"connect", "failed"}, conn |-> FALSE]

\* The guard's first line: TRUE when the call goes on (a mutant: no link check).
MQTTLinkCheckNone(st) == TRUE

MQTTLinkCheck(st) == st = WL_CONNECTED

\* One call of the guard with WiFi.status() = st and client.connected() = conn;
\* ok is the outcome of client.connect(), should it be called, and jitter the
\* value random(0, 50) gives.  conn is client.connected() after the call and dt
\* the time the call takes.
tryMQTTConnectNonBlocking(g, st, conn, ok, jitter) ==
  IF ~MQTTLinkCheck(st)
    THEN [g |-> g, ret |-> FALSE, ops |-> {}, conn |-> conn, dt |-> 0]
  ELSE
    LET i == MQTTInitOnce(g)
    IN IF conn
         THEN [g |-> IF i.g.wasConnected
                       THEN i.g
                       ELSE [i.g EXCEPT !.wasConnected = TRUE, !.tryCount = 0,
                                        !.nextDelay = BackoffBase],
               ret |-> TRUE, ops |-> i.ops, conn |-> TRUE, dt |-> i.dt]
         ELSE LET r == MQTTReconnect(i.g, ok, jitter)
              IN [g |-> r.g, ret |-> r.ret, ops |-> i.ops \cup r.ops,
                  conn |-> r.conn, dt |-> i.dt]

MQTTGuardInit ==
  [initialized |-> FALSE, wasConnected |-> FALSE, sinceAttempt |-> 0,
   tryCount |-> 0, nextDelay |-> BackoffBase]

NoMQTTCall == [link |-> FALSE, conn |-> FALSE, ret |-> FALSE, ops |-> {}]

\* The guard is called: HestiaNet::tryMQTTConnectNonBlocking().
MQTTPoll ==
  \E ok \in BOOLEAN, jitter \in Jitters :
    LET r == tryMQTTConnectNonBlocking(mqttGuard, wifiStatus, clientConnected, ok, jitter)
    IN /\ mqttGuard' = r.g
       /\ clientConnected' = r.conn
       /\ mqttCall' = [link |-> wifiStatus = WL_CONNECTED, conn |-> clientConnected,
                       ret |-> r.ret, ops |-> r.ops]
       /\ wifiGuard' = WiFiGuardLater(wifiGuard, r.dt)
       /\ UNCHANGED <<wifiStatus, begun, everReset, wifiCall, commVars, bridgeVars, announceVars, otaVars>>

\* client.disconnect() issued whatever client.connected() says (a mutant).
disconnectMQTTAlways(conn) == [conn |-> FALSE, ops |-> {"disconnect"}]

\* HestiaNet::disconnectMQTT() with client.connected() = conn: conn is
\* client.connected() after the call.
disconnectMQTT(conn) ==
  IF conn
    THEN [conn |-> FALSE, ops |-> {"disconnect"}]
    ELSE [conn |-> conn, ops |-> {}]

\* The application calls HestiaNet::disconnectMQTT().
DisconnectMQTT ==
  LET r == disconnectMQTT(clientConnected)
  IN /\ clientConnected' = r.conn
     /\ mqttCall' = [link |-> wifiStatus = WL_CONNECTED, conn |-> clientConnected,
                     ret |-> FALSE, ops |-> r.ops]
     /\ suspended' = TRUE
     /\ UNCHANGED <<linkVars, mqttGuard, commVars, bridgeVars, announceVars>>
     /\ UNCHANGED <<iotCredentials, otaMode, loginAttempts, updateBegun, otaCall, otaHist>>

\* ------------------------------------------------------- HAIoTBridge entities

\* A String is held as the sequence of its characters.
UpperToLower ==
  [A |-> "a", B |-> "b", C |-> "c", D |-> "d", E |-> "e", F |-> "f", G |-> "g",
   H |-> "h", I |-> "i", J |-> "j", K |-> "k", L |-> "l", M |-> "m", N |-> "n",
   O |-> "o", P |-> "p", Q |-> "q", R |-> "r", S |-> "s", T |-> "t", U |-> "u",
   V |-> "v", W |-> "w", X |-> "x", Y |-> "y", Z |-> "z"]

tolower(c) == IF c \in DOMAIN UpperToLower THEN UpperToLower[c] ELSE c

\* String::equalsIgnoreCase: same length and the same characters once lowered.
equalsIgnoreCase(a, b) ==
  /\ Len(a) = Len(b)
  /\ \A i \in 1 .. Len(a) : tolower(a[i]) = tolower(b[i])

\* readBool with the comparisons made case-sensitive (a mutant).
readBoolCaseSensitive(e) ==
  \/ e.value = <<"t", "r", "u", "e">>
  \/ e.value = <<"o", "n">>
  \/ e.value = <<"1">>

readBool(e) ==
  \/ equalsIgnoreCase(e.value, <<"t", "r", "u", "e">>)
  \/ equalsIgnoreCase(e.value, <<"o", "n">>)
  \/ e.value = <<"1">>

\* The characters names and values are written with, by character code.
Digits == <<"0", "1", "2", "3", "4", "5", "6", "7", "8", "9">>
Uppers == <<"A", "B", "C", "D", "E", "F", "G", "H", "I", "J", "K", "L", "M",
            "N", "O", "P", "Q", "R", "S", "T", "U", "V", "W", "X", "Y", "Z">>
Lowers == <<"a", "b", "c", "d", "e", "f", "g", "h", "i", "j", "k", "l", "m",
            "n", "o", "p", "q", "r", "s", "t", "u", "v", "w", "x", "y", "z">>

IndexIn(seq, c) == CHOOSE i \in 1 .. Len(seq) : seq[i] = c
IsIn(seq, c) == \E i \in 1 .. Len(seq) : seq[i] = c

\* The code of a character, as the checksum of shortenKey adds it.
charCode(c) ==
  IF IsIn(Digits, c) THEN 47 + IndexIn(Digits, c)
  ELSE IF IsIn(Uppers, c) THEN 64 + IndexIn(Uppers, c)
  ELSE IF IsIn(Lowers, c) THEN 96 + IndexIn(Lowers, c)
  ELSE IF c = "_" THEN 95
  ELSE IF c = "-" THEN 45
  ELSE IF c = "." THEN 46
  ELSE IF c = "/" THEN 47
  ELSE 32

Pow10(n) == 10 ^ n

\* String(n) of a natural number: its decimal digits.
RECURSIVE NatString(_)
NatString(n) == IF n < 10 THEN <<Digits[n + 1]>> ELSE Append(NatString(n \div 10), Digits[(n % 10) + 1])

\* The digits of n on exactly w places (w = 0: none).
RECURSIVE PaddedDigits(_, _)
PaddedDigits(n, w) == IF w = 0 THEN <<>> ELSE Append(PaddedDigits(n \div 10, w - 1), Digits[(n % 10) + 1])

\* computeDecimals: the number of characters after the first '.', 0 without one.
computeDecimals(res) ==
  IF IsIn(res, ".")
    THEN (Len(res) - (CHOOSE i \in 1 .. Len(res) :
                        res[i] = "." /\ \A j \in 1 .. (i - 1) : res[j] # ".")) % Uint8Mod
    ELSE 0

RECURSIVE floatScan(_, _, _, _)
floatScan(s, i, pointSeen, digitSeen) ==
  IF i > Len(s) THEN digitSeen
  ELSE IF s[i] = "-" /\ i = 1 THEN floatScan(s, i + 1, pointSeen, digitSeen)
  ELSE IF s[i] = "." THEN (IF pointSeen THEN FALSE ELSE floatScan(s, i + 1, TRUE, digitSeen))
  ELSE IF ~IsIn(Digits, s[i]) THEN FALSE
  ELSE floatScan(s, i + 1, pointSeen, TRUE)

\* isFloatLike: optional leading minus, at most one point, at least one digit.
isFloatLike(s) == s # <<>> /\ floatScan(s, 1, FALSE, FALSE)

\* The digits of a float-like string read as one natural number.
RECURSIVE Mantissa(_, _)
Mantissa(s, i) ==
  IF i = 0 THEN 0
  ELSE IF IsIn(Digits, s[i]) THEN (10 * Mantissa(s, i - 1)) + (IndexIn(Digits, s[i]) - 1)
  ELSE Mantissa(s, i - 1)

\* toFloat() of a float-like string: sign, digits and number of decimals.
toFloat(s) ==
  [neg |-> s[1] = "-", digits |-> Mantissa(s, Len(s)),
   scale |-> IF IsIn(s, ".") THEN Len(s) - IndexIn(s, ".") ELSE 0]

\* The digits kept when f is rounded to dec decimals; a value halfway between
\* two neighbours may go either way in binary floating point.
Rounded(f, dec) ==
  IF f.scale <= dec
    THEN {f.digits * Pow10(dec - f.scale)}
    ELSE LET unit == Pow10(f.scale - dec)
             q == f.digits \div unit
             r == f.digits % unit
         IN IF 2 * r < unit THEN {q} ELSE IF 2 * r > unit THEN {q + 1} ELSE {q, q + 1}

\* The text of m / 10^dec with dec decimals.
FixedText(neg, m, dec) ==
  (IF neg THEN <<"-">> ELSE <<>>) \o NatString(m \div Pow10(dec))
    \o (IF dec = 0 THEN <<>> ELSE <<".">> \o PaddedDigits(m % Pow10(dec), dec))

\* String(f, dec): dtostrf with dec decimals in a field of dec + 2 characters,
\* which a shorter text may or may not be padded to with a leading blank.
FloatString(f, dec) ==
  UNION {LET t == FixedText(f.neg, m, dec)
         IN IF Len(t) < dec + 2 THEN {t, <<" ">> \o t} ELSE {t} : m \in Rounded(f, dec)}

\* normalize: the texts normalize(dec, s) may return.
normalize(dec, s) == IF isFloatLike(s) THEN FloatString(toFloat(s), dec) ELSE {s}

\* The sum of the character codes of a name, in 8 bits.
RECURSIVE codeSum(_, _)
codeSum(full, i) == IF i = 0 THEN 0 ELSE (codeSum(full, i - 1) + charCode(full[i])) % Uint8Mod

\* shortenKey: the name, or its last 14 characters and a checksum digit.
shortenKey(full) ==
  IF Len(full) <= 15 THEN full
  ELSE SubSeq(full, Len(full) - 13, Len(full)) \o NatString(codeSum(full, Len(full)) % 10)

\* The constructor: the configured fields, the decimals of the resolution, the
\* NVS key of the name, empty values, not initialized.
HAIoTBridge(cfg) ==
  [name |-> cfg.name, type |-> cfg.type, topicTo |-> cfg.topicTo,
   topicFrom |-> cfg.topicFrom, defaultValue |-> cfg.defaultValue,
   decimals |-> computeDecimals(cfg.resolution), nvsKey |-> shortenKey(cfg.name),
   value |-> <<>>, valueMem |-> <<>>, initialized |-> FALSE]

\* init() of an entity that is not a HA_CONTROL: the default value is applied.
initDefault(e) ==
  [e EXCEPT !.value = e.defaultValue, !.valueMem = e.defaultValue, !.initialized = TRUE]

\* The NVS namespace: preferences.getString(key, ""), putString, remove.
NoPreferences == <<>>

getString(prefs, key) == IF key \in DOMAIN prefs THEN prefs[key] ELSE <<>>

putString(prefs, key, val) ==
  [k \in DOMAIN prefs \cup {key} |-> IF k = key THEN val ELSE prefs[k]]

remove(prefs, key) == [k \in DOMAIN prefs \ {key} |-> prefs[k]]

\* init(): the entities init() may leave, one for each text normalize may give.
init(e, prefs) ==
  IF e.type = "HA_CONTROL"
    THEN LET val == getString(prefs, e.nvsKey)
         IN IF val = <<>> /\ e.defaultValue # <<>>
              THEN {initDefault(e)}
              ELSE {[e EXCEPT !.value = v, !.valueMem = v, !.initialized = TRUE] :
                      v \in normalize(e.decimals, val)}
    ELSE {initDefault(e)}

\* publish(): HestiaCore::publishToMQTT on the output topic, if there is one.
publish(e, val) ==
  IF e.topicTo = ""
    THEN <<>>
    ELSE <<[op |-> "publishToMQTT", to |-> e.topicTo, val |-> val]>>

\* saveAndPublish() publishing first and storing after (a mutant).
publishAndSave(e, val, prefs) ==
  IF Len(e.nvsKey) <= 15 /\ e.type = "HA_CONTROL"
    THEN [prefs |-> putString(prefs, e.nvsKey, val),
          issued |-> publish(e, val) \o <<[op |-> "putString", to |-> e.nvsKey, val |-> val]>>]
    ELSE [prefs |-> prefs, issued |-> publish(e, val)]

\* saveAndPublish(): a HA_CONTROL stores the value under its key, then publish().
saveAndPublish(e, val, prefs) ==
  IF Len(e.nvsKey) <= 15 /\ e.type = "HA_CONTROL"
    THEN [prefs |-> putString(prefs, e.nvsKey, val),
          issued |-> <<[op |-> "putString", to |-> e.nvsKey, val |-> val]>> \o publish(e, val)]
    ELSE [prefs |-> prefs, issued |-> publish(e, val)]

\* write(const String&).
write(e, v, prefs) ==
  LET e1 == [e EXCEPT !.value = v, !.valueMem = v]
  IN IF e.type = "HA_CONTROL"
       THEN LET sp == saveAndPublish(e1, v, prefs)
            IN [e |-> e1, prefs |-> sp.prefs, issued |-> sp.issued]
       ELSE [e |-> e1, prefs |-> prefs, issued |-> publish(e1, v)]

\* write(float): the texts String(v, _decimals) may give, then write(String).
writeFloat(e, f, prefs) == {write(e, t, prefs) : t \in FloatString(f, e.decimals)}

\* write(int): String(v).
writeInt(e, neg, n, prefs) == write(e, (IF neg THEN <<"-">> ELSE <<>>) \o NatString(n), prefs)

\* write(bool): "ON" or "OFF".
writeBool(e, b, prefs) == write(e, IF b THEN <<"O", "N">> ELSE <<"O", "F", "F">>, prefs)

\* onChange() of a trigger that keeps its value (a mutant).
onChangeKeepsTrigger(e) ==
  IF e.value = <<>> THEN [e |-> e, ret |-> FALSE]
  ELSE IF e.type = "HA_BUTTON" THEN [e |-> e, ret |-> TRUE]
  ELSE IF e.value = e.valueMem THEN [e |-> e, ret |-> FALSE]
  ELSE [e |-> [e EXCEPT !.valueMem = e.value], ret |-> TRUE]

\* onChange() that does not acknowledge the value it reports (a mutant).
onChangeNoAck(e) ==
  IF e.value = <<>> THEN [e |-> e, ret |-> FALSE]
  ELSE IF e.type = "HA_BUTTON"
    THEN [e |-> [e EXCEPT !.value = <<>>, !.valueMem = <<>>], ret |-> TRUE]
  ELSE IF e.value = e.valueMem THEN [e |-> e, ret |-> FALSE]
  ELSE [e |-> e, ret |-> TRUE]

\* onChange() without the test of the empty value (a mutant).
onChangeOfEmpty(e) ==
  IF e.type = "HA_BUTTON"
    THEN [e |-> [e EXCEPT !.value = <<>>, !.valueMem = <<>>], ret |-> TRUE]
  ELSE IF e.value = e.valueMem THEN [e |-> e, ret |-> FALSE]
  ELSE [e |-> [e EXCEPT !.valueMem = e.value], ret |-> TRUE]

\* onChange().
onChange(e) ==
  IF e.value = <<>> THEN [e |-> e, ret |-> FALSE]
  ELSE IF e.type = "HA_BUTTON"
    THEN [e |-> [e EXCEPT !.value = <<>>, !.valueMem = <<>>], ret |-> TRUE]
  ELSE IF e.value = e.valueMem THEN [e |-> e, ret |-> FALSE]
  ELSE [e |-> [e EXCEPT !.valueMem = e.value], ret |-> TRUE]

\* The eligibility test with indicators let through (a mutant).
NoInputTopic(e) == e.topicFrom = ""

\* readMQTT, step 1: the entity takes no input.
NoInput(e) == e.topicFrom = "" \/ e.type = "HA_INDICATOR"

\* The flush test never holding a message back (a mutant).
FlushBlocksNothing(e, flushMode) == FALSE

\* The flush test holding back the internal entities too (a mutant).
FlushBlocksAll(e, flushMode) == flushMode

\* readMQTT, step 1: the flush is on and the entity is not an internal one.
FlushBlocks(e, flushMode) == flushMode /\ e.type # "HA_ENTITIES"

\* readMQTT: ret is TRUE when the message is consumed.
readMQTT(e, topic, payload, flushMode, prefs) ==
  IF NoInput(e)
    THEN [e |-> e, ret |-> FALSE, prefs |-> prefs, issued |-> <<>>]
  ELSE IF FlushBlocks(e, flushMode)
    THEN [e |-> e, ret |-> FALSE, prefs |-> prefs, issued |-> <<>>]
  ELSE IF topic # e.topicFrom
    THEN [e |-> e, ret |-> FALSE, prefs |-> prefs, issued |-> <<>>]
  ELSE LET e1 == [e EXCEPT !.value = payload]
       IN IF e.type = "HA_CONTROL"
            THEN LET sp == saveAndPublish(e1, payload, prefs)
                 IN [e |-> e1, ret |-> TRUE, prefs |-> sp.prefs, issued |-> sp.issued]
            ELSE [e |-> e1, ret |-> TRUE, prefs |-> prefs, issued |-> <<>>]

\* reset() that leaves the NVS entry in place (a mutant).
resetMemoryOnly(e, prefs) ==
  [e |-> [e EXCEPT !.value = <<>>, !.valueMem = <<>>], prefs |-> prefs, issued |-> <<>>]

\* reset().
reset(e, prefs) ==
  [e |-> [e EXCEPT !.value = <<>>, !.valueMem = <<>>],
   prefs |-> remove(prefs, e.nvsKey),
   issued |-> <<[op |-> "remove", to |-> e.nvsKey, val |-> <<>>]>>]

NoBridgeCall ==
  [op |-> "none", arg |-> <<>>, topic |-> "", flushMode |-> FALSE, ret |-> FALSE,
   issued |-> <<>>]

\* One entity on its own: the bridge_config entries it is built from, the texts
\* written to it or received for it, and the topics messages arrive on.
TypeHA == {"HA_CONTROL", "HA_INDICATOR", "HA_BUTTON", "HA_ENTITIES"}

\* The name of the hub-online entity.
HA_onlineName ==
  <<"I", "o", "t", "B", "r", "i", "d", "g", "e", "_", "H", "A", "_",
    "o", "n", "l", "i", "n", "e">>

\* The name of the OTA trigger.
OTAName == <<"I", "o", "t", "B", "r", "i", "d", "g", "e", "_", "O", "T", "A">>

EntityConfigs ==
  [name : {OTAName, HA_onlineName},
   type : TypeHA,
   topicTo : {"", "Virgo/OTA/toHA"},
   topicFrom : {"", "Virgo/OTA/fromHA"},
   resolution : {<<>>, <<"0", ".", "1">>},
   defaultValue : {<<>>, <<"5">>}]

EntityValues == {<<>>, <<"O", "N">>, <<"5">>, <<"2", ".", "4", "0">>}

EntityTopics == {"Virgo/OTA/fromHA", "HA/domotique/online"}

EntityFloats == {[neg |-> FALSE, digits |-> 24, scale |-> 1]}

\* The entity on its own is the one entry of the registry.
Called(op, arg, topic, flushMode, ret, issued) ==
  [op |-> op, arg |-> arg, topic |-> topic, flushMode |-> flushMode, ret |-> ret,
   issued |-> issued]

EntityStep(e, prefs, call) ==
  /\ BridgeRegistry' = <<e>>
  /\ preferences' = prefs
  /\ bridgeCall' = call
  /\ UNCHANGED <<linkVars, sessionVars, core, mqttFlush, callbackInstalled, coreCall, hist>>
  /\ UNCHANGED <<announceVars, otaVars>>

EntityWrite ==
  \E v \in EntityValues :
    \E r \in {write(BridgeRegistry[1], v, preferences)} :
      EntityStep(r.e, r.prefs, Called("write", v, "", FALSE, FALSE, r.issued))

EntityWriteFloat ==
  \E f \in EntityFloats :
    \E r \in writeFloat(BridgeRegistry[1], f, preferences) :
      EntityStep(r.e, r.prefs, Called("writeFloat", <<>>, "", FALSE, FALSE, r.issued))

EntityWriteInt ==
  \E r \in {writeInt(BridgeRegistry[1], FALSE, 7, preferences)} :
    EntityStep(r.e, r.prefs, Called("writeInt", <<>>, "", FALSE, FALSE, r.issued))

EntityWriteBool ==
  \E b \in BOOLEAN :
    \E r \in {writeBool(BridgeRegistry[1], b, preferences)} :
      EntityStep(r.e, r.prefs, Called("writeBool", <<>>, "", FALSE, FALSE, r.issued))

EntityOnChange ==
  \E r \in {onChange(BridgeRegistry[1])} :
    EntityStep(r.e, preferences, Called("onChange", <<>>, "", FALSE, r.ret, <<>>))

EntityReadMQTT ==
  \E topic \in EntityTopics, payload \in EntityValues, flushMode \in BOOLEAN :
    \E r \in {readMQTT(BridgeRegistry[1], topic, payload, flushMode, preferences)} :
      EntityStep(r.e, r.prefs, Called("readMQTT", payload, topic, flushMode, r.ret, r.issued))

EntityReset ==
  \E r \in {reset(BridgeRegistry[1], preferences)} :
    EntityStep(r.e, r.prefs, Called("reset", <<>>, "", FALSE, FALSE, r.issued))

\* The configuration an entity was built from.
ConfigOf(e) == CHOOSE cfg \in EntityConfigs :
  /\ cfg.name = e.name /\ cfg.type = e.type /\ cfg.topicTo = e.topicTo
  /\ cfg.topicFrom = e.topicFrom /\ cfg.defaultValue = e.defaultValue
  /\ computeDecimals(cfg.resolution) = e.decimals

\* The device restarts: setup() builds the entity again and init() restores it.
EntityReboot ==
  \E e \in init(HAIoTBridge(ConfigOf(BridgeRegistry[1])), preferences) :
    EntityStep(e, preferences, Called("init", <<>>, "", FALSE, FALSE, <<>>))

\* The entry with the hub taken as online by default (a mutant).
IotBridge_HA_onlineByDefault ==
  [name |-> HA_onlineName, type |-> "HA_ENTITIES", topicTo |-> "",
   topicFrom |-> "HA/domotique/online", resolution |-> <<>>,
   defaultValue |-> <<"O", "N">>]

\* The bridge_config entry of the hub-online entity.
IotBridge_HA_online ==
  [name |-> HA_onlineName, type |-> "HA_ENTITIES", topicTo |-> "",
   topicFrom |-> "HA/domotique/online", resolution |-> <<>>,
   defaultValue |-> <<"f", "a", "l", "s", "e">>]

\* The registry after setup(): RegisterEntitiesIotBridge(), then InitValueNVS().
\* Of the table it holds the entity the communication sequence reads.
RegistryInit == <<initDefault(HAIoTBridge(IotBridge_HA_online))>>

\* HestiaCore::get(name).
get(reg, name) == reg[CHOOSE i \in 1 .. Len(reg) : reg[i].name = name]

\* The inbound topics the client is subscribed to, and the payloads the hub sends.
Topics == {"HA/domotique/online", "HA/Heartbeat/fromHA"}
Payloads == {<<"O", "N">>, <<"1">>, <<"f", "a", "l", "s", "e">>}

\* ------------------------------------------------------------ MQTTDiscovery

\* An announcement payload, by what MQTTDiscovery() finds in it: the result of
\* deserializeJson, what is under "device", what is under "cmps" and how
\* many components "cmps" holds.
DeserializationErrors == {"Ok", "InvalidInput", "NoMemory"}

JsonKinds == {"absent", "string", "object"}

MaxComponents == 5

\* g_discoveryJson == nullptr: loadDiscoveryJson() has not been called.
NoDiscoveryJson ==
  [loaded |-> FALSE, err |-> "Ok", device |-> "absent", cmps |-> "absent", size |-> 0]

\* config_json of the Virgo example: a device object and five components.
config_json ==
  [loaded |-> TRUE, err |-> "Ok", device |-> "object", cmps |-> "object",
   size |-> MaxComponents]

\* The payloads an application may load.
DiscoveryJsons ==
  {j \in [loaded : {TRUE}, err : DeserializationErrors, device : JsonKinds,
          cmps : JsonKinds, size : {0, 1, MaxComponents}] :
     /\ j.cmps # "object" => j.size = 0
     /\ j.err # "Ok" => (j.device = "absent" /\ j.cmps = "absent")}

\* The topic of the announcement: homeassistant/device/<device_id>/config.
DiscoveryTopic == "homeassistant/device/Virgo/config"

\* The structural validation with an empty component map let through (a mutant).
StructureOKAnyMap(json) == json.device = "object" /\ json.cmps = "object"

\* MQTTDiscovery(), step 3: a device object and a component map that is not empty.
StructureOK(json) == json.device = "object" /\ json.cmps = "object" /\ json.size # 0

\* MQTTDiscovery(): the calls of client.publish it issues.
MQTTDiscovery(connected, json) ==
  IF ~connected THEN <<>>
  ELSE IF ~json.loaded THEN <<>>
  ELSE IF json.err # "Ok" THEN <<>>
  ELSE IF ~StructureOK(json) THEN <<>>
  ELSE <<[topic |-> DiscoveryTopic, retained |-> TRUE, qos |-> 1]>>

NoDiscoveryCall == [called |-> FALSE, conn |-> FALSE, json |-> NoDiscoveryJson, issued |-> <<>>]

\* MQTTDiscovery() called with the session and the payload as they are.
Announce(connected, json) ==
  [called |-> TRUE, conn |-> connected, json |-> json, issued |-> MQTTDiscovery(connected, json)]

\* startMessageReceived() leaving the client without a callback (a mutant).
startMessageReceivedNothing(installed) == installed

\* startMessageReceived(): client.onMessage(messageReceived); the value is
\* whether the client has a callback afterwards.
startMessageReceived(installed) == TRUE

\* ------------------------------------------- HestiaCore communication sequence

\* The length of the retained-message flush window.
FlushWindow == 3000

\* The most consecutive client.connect() failures the broker answers a pass of
\* loop() with.
MaxFails == 2

\* The attempt count of the Wi-Fi guard from which a scan run by a pass of
\* loop() finds the access point.
MaxTries == 6

\* The calls of MQTTDiscovery() in one session are counted up to this many.
MaxAnnounced == 2

\* The message offered to every entity, consumed or not (a mutant).
RECURSIVE dispatchToAll(_, _, _, _, _, _)
dispatchToAll(reg, i, topic, payload, flushMode, prefs) ==
  IF i > Len(reg)
    THEN [reg |-> reg, prefs |-> prefs]
    ELSE LET r == readMQTT(reg[i], topic, payload, flushMode, prefs)
         IN dispatchToAll([reg EXCEPT ![i] = r.e], i + 1, topic, payload, flushMode, r.prefs)

RECURSIVE dispatchFrom(_, _, _, _, _, _)
dispatchFrom(reg, i, topic, payload, flushMode, prefs) ==
  IF i > Len(reg)
    THEN [reg |-> reg, prefs |-> prefs]
    ELSE LET r == readMQTT(reg[i], topic, payload, flushMode, prefs)
         IN IF r.ret
              THEN [reg |-> [reg EXCEPT ![i] = r.e], prefs |-> r.prefs]
              ELSE dispatchFrom(reg, i + 1, topic, payload, flushMode, prefs)

\* The message is offered to the entities in registration order until one consumes it.
onMessageReceived(reg, topic, payload, flushMode, prefs) ==
  dispatchFrom(reg, 1, topic, payload, flushMode, prefs)

CoreInit ==
  [stage |-> "AwaitLink", mqttOK |-> FALSE, fineReadyEdge |-> FALSE,
   ha_init_done |-> FALSE, subscribed |-> FALSE, sinceFlush |-> 0]

\* millis() advances by d: the flush window, once started, is d older.
CoreLater(c, d) ==
  IF c.stage \in {"Flushing", "Ready"}
    THEN [c EXCEPT !.sinceFlush = Older(@, d, FlushWindow)]
    ELSE c

\* The flush window taken as over at once (a mutant).
FlushElapsedAtOnce(c) == TRUE

\* The flush window, started at the subscriptions, is over.
FlushElapsed(c) == c.sinceFlush >= FlushWindow

\* Loss of attachment resumed from AwaitSession (a mutant).
RestartResume(c) ==
  [c EXCEPT !.stage = "AwaitSession", !.fineReadyEdge = FALSE, !.ha_init_done = FALSE,
            !.subscribed = FALSE, !.sinceFlush = 0]

\* Loss of attachment: the sequence restarts from AwaitLink, nothing is resumed.
Restart(c) ==
  [c EXCEPT !.stage = "AwaitLink", !.fineReadyEdge = FALSE, !.ha_init_done = FALSE,
            !.subscribed = FALSE, !.sinceFlush = 0]

\* The stage after the announcement, the sequence announcing again (a mutant).
StageAfterAnnounceAgain(issued) == "AwaitAnnounce"

\* The stage after the announcement, the sequence waiting for a payload that
\* passes (a mutant).
StageAfterAnnounceIfPublished(issued) ==
  IF issued = <<>> THEN "AwaitAnnounce" ELSE "AwaitSubscribe"

\* The stage after MQTTDiscovery() has returned, whatever it issued.
StageAfterAnnounce(issued) == "AwaitSubscribe"

\* One pass of CoreComm() after the two guards have reported wifiOK and mqttOK:
\* one stage transition at most.  ops is what the pass did, in order, and flush
\* the value it leaves in mqttFlush; json is the announcement payload loaded.
CoreCommStage(c, wifiOK, mqttOK, flush, json) ==
  LET c0 == [c EXCEPT !.mqttOK = mqttOK]
      stay == [c |-> c0, ops |-> <<>>, flush |-> flush]
      lost == [c |-> Restart(c0), ops |-> <<"restart">>, flush |-> FALSE]
  IN IF ~wifiOK THEN lost
     ELSE IF c.stage = "AwaitLink"
       THEN [stay EXCEPT !.c.stage = "AwaitSession"]
     ELSE IF c.stage = "AwaitSession"
       THEN IF mqttOK THEN [stay EXCEPT !.c.stage = "AwaitAnnounce"] ELSE stay
     ELSE IF ~mqttOK THEN lost
     ELSE IF c.stage = "AwaitAnnounce"
       THEN [c |-> [c0 EXCEPT !.stage = StageAfterAnnounce(MQTTDiscovery(mqttOK, json))],
             ops |-> <<"MQTTDiscovery">>, flush |-> flush]
     ELSE IF c.stage = "AwaitSubscribe"
       THEN [c |-> [c0 EXCEPT !.stage = "Flushing", !.subscribed = TRUE, !.sinceFlush = 0],
             ops |-> <<"startMessageReceived", "subscribe">>, flush |-> TRUE]
     ELSE IF c.stage = "Flushing" /\ FlushElapsed(c)
       THEN [c |-> [c0 EXCEPT !.stage = "Ready", !.fineReadyEdge = TRUE],
             ops |-> <<"ready">>, flush |-> FALSE]
     ELSE stay

\* commOK() == (mqttOK == true) && (HA_online == true)
commOK(c, reg) == c.mqttOK /\ readBool(get(reg, HA_onlineName))

\* comm_state_ok: the whole pipeline is complete.
comm_state_ok(c, reg) == commOK(c, reg) /\ c.stage = "Ready" /\ c.ha_init_done

InitHAOK(c, reg) == comm_state_ok(c, reg)

\* newSeqComm() with the edge left standing (a mutant).
newSeqCommSticky(c) == [c |-> c, ret |-> c.fineReadyEdge]

\* newSeqComm(): reads the one-shot edge and consumes it.
newSeqComm(c) == [c |-> [c EXCEPT !.fineReadyEdge = FALSE], ret |-> c.fineReadyEdge]

setHAInitDone(c) == [c EXCEPT !.ha_init_done = TRUE]

\* ------------------------------------------------------------ Virgo loop()

\* The activation sequence with setHAInitDone() left out (a mutant).
ActivationNoInitDone(c) ==
  LET e == newSeqComm(c) IN [c |-> e.c, edge |-> e.ret, done |-> FALSE]

\* Section 3 of loop(): if (newSeqComm()) { HAInit(); setHAInitDone(); }
Activation(c) ==
  LET e == newSeqComm(c)
  IN IF e.ret
       THEN [c |-> setHAInitDone(e.c), edge |-> TRUE, done |-> TRUE]
       ELSE [c |-> e.c, edge |-> FALSE, done |-> FALSE]

HistInit == [edges |-> 0, inits |-> 0, announces |-> 0]

NoCoreCall == [ops |-> <<>>, edge |-> FALSE]

Count(b) == IF b THEN 1 ELSE 0

Has(ops, op) == \E i \in 1 .. Len(ops) : ops[i] = op

\* One pass of loop(): CoreComm() with its two guards, then the activation
\* sequence.  The calls of MQTTDiscovery() in the session are counted where
\* counted is TRUE.
LoopPass(counted) ==
  \E found \in IF wifiGuard.tryCount >= MaxTries THEN {TRUE} ELSE BOOLEAN,
     jitter \in Jitters,
     ok \in IF mqttGuard.tryCount >= MaxFails THEN {TRUE} ELSE BOOLEAN :
    \E w \in {tryWiFiConnectNonBlocking_V2(wifiGuard, wifiStatus, found, jitter)} :
    \E m \in {tryMQTTConnectNonBlocking(MQTTGuardLater(mqttGuard, w.dt), wifiStatus,
                                        clientConnected, ok, jitter)} :
    \E s \in {CoreCommStage(CoreLater(core, w.dt + m.dt), w.ret, m.ret, mqttFlush,
                            g_discoveryJson)} :
    \E a \in {Activation(s.c)} :
    \E h \in {IF Has(s.ops, "restart") THEN HistInit ELSE hist} :
       /\ wifiGuard' = WiFiGuardLater(w.g, m.dt)
       /\ wifiCall' = [st |-> wifiStatus, ret |-> w.ret, ops |-> w.ops]
       /\ begun' = (begun \/ "begin" \in w.ops)
       /\ everReset' = (everReset \/ "reset" \in w.ops)
       /\ mqttGuard' = m.g
       /\ clientConnected' = m.conn
       /\ mqttCall' = [link |-> wifiStatus = WL_CONNECTED, conn |-> clientConnected,
                       ret |-> m.ret, ops |-> m.ops]
       /\ core' = a.c
       /\ mqttFlush' = s.flush
       /\ callbackInstalled' = IF Has(s.ops, "startMessageReceived")
                                 THEN startMessageReceived(callbackInstalled)
                                 ELSE callbackInstalled
       /\ coreCall' = [ops |-> s.ops, edge |-> a.edge]
       /\ hist' = [edges |-> h.edges + Count(a.edge), inits |-> h.inits + Count(a.done),
                   announces |-> h.announces + Count(Has(s.ops, "MQTTDiscovery"))]
       /\ discoveryCall' = IF Has(s.ops, "MQTTDiscovery")
                             THEN Announce(m.conn, g_discoveryJson) ELSE NoDiscoveryCall
       /\ announced' = IF counted
                          THEN Min((IF "connected" \in m.ops THEN 0 ELSE announced)
                                     + Count(Has(s.ops, "MQTTDiscovery")), MaxAnnounced)
                          ELSE announced
       /\ UNCHANGED <<wifiStatus, BridgeRegistry, bridgeVars, g_discoveryJson, otaVars>>

Loop == LoopPass(FALSE)

\* The same pass, the announcements of the session counted.
LoopCounted == LoopPass(TRUE)

\* The broker delivers a message on a subscribed topic: messageReceived() hands
\* it to HestiaCore::onMessageReceived().
messageReceived ==
  /\ wifiStatus = WL_CONNECTED
  /\ clientConnected
  /\ core.subscribed
  /\ callbackInstalled
  /\ \E topic \in Topics, payload \in Payloads :
     \E r \in {onMessageReceived(BridgeRegistry, topic, payload, mqttFlush, preferences)} :
       BridgeRegistry' = r.reg /\ preferences' = r.prefs
  /\ UNCHANGED <<linkVars, sessionVars, core, mqttFlush, callbackInstalled, coreCall, hist>>
  /\ UNCHANGED <<announceVars, otaVars>>
  /\ UNCHANGED bridgeCall

\* ------------------------------------------------------------ OTA web server

MAX_ATTEMPTS == 5

NoOTACall == [route |-> "", match |-> FALSE, status |-> "", sent |-> "", ops |-> {}]

OTAHistInit == [loggedIn |-> FALSE, failed |-> 0]

NoCredentials == [user |-> "", pass |-> ""]

\* Before HestiaOTA_Web_Start(): the server is not running.
OTAIdle ==
  /\ suspended = FALSE
  /\ iotCredentials = NoCredentials
  /\ otaMode = "idle"
  /\ loginAttempts = 0
  /\ updateBegun = FALSE
  /\ otaCall = NoOTACall
  /\ otaHist = OTAHistInit

\* The credentials configured on a protected device, and what a client may post.
ConfiguredCredentials == [user |-> "admin", pass |-> "secret"]

PostedUsers == {"", "admin", "guest"}

PostedPasses == {"", "secret", "guess"}

UploadStatuses == {"UPLOAD_FILE_START", "UPLOAD_FILE_WRITE", "UPLOAD_FILE_END"}

\* The failed /login posts counted since the last login, up to this bound.
MaxFailedLogins == 7

\* handleLoginPost() with the arguments user and pass: rebootDevice() once
\* loginAttempts has reached MAX_ATTEMPTS, else the comparison.
handleLoginPost(attempts, creds, user, pass) ==
  IF attempts >= MAX_ATTEMPTS
    THEN [attempts |-> attempts, sent |-> "rebooting", restart |-> TRUE]
  ELSE IF user = creds.user /\ pass = creds.pass
    THEN [attempts |-> 0, sent |-> "302 /ota", restart |-> FALSE]
  ELSE [attempts |-> attempts + 1, sent |-> "login page, invalid", restart |-> FALSE]

\* The handler of "/": the upload page when no credentials are configured,
\* else the login page.
handleRoot(creds) ==
  IF creds.user = "" /\ creds.pass = "" THEN "ota page" ELSE "login page"

\* handleOtaPage(): the page is sent whoever asks.
handleOtaPage == "ota page"

\* handleUpload() for one part of the upload; endOK is what Update.end(true)
\* returns.
handleUpload(attempts, status, endOK) ==
  IF status = "UPLOAD_FILE_START"
    THEN [attempts |-> 0, sent |-> "", restart |-> FALSE, ops |-> {"Update.begin"}]
  ELSE IF status = "UPLOAD_FILE_WRITE"
    THEN [attempts |-> attempts, sent |-> "", restart |-> FALSE, ops |-> {"Update.write"}]
  ELSE IF endOK
    THEN [attempts |-> attempts, sent |-> "updated, rebooting", restart |-> TRUE,
          ops |-> {"Update.end"}]
  ELSE [attempts |-> attempts, sent |-> "500 update failed", restart |-> FALSE,
        ops |-> {"Update.end"}]

\* One request handled by server.handleClient().
Served(call, attempts, restart, begunNow, histNow) ==
  /\ otaCall' = call
  /\ loginAttempts' = attempts
  /\ otaMode' = IF restart THEN "restarted" ELSE otaMode
  /\ updateBegun' = begunNow
  /\ otaHist' = histNow
  /\ UNCHANGED <<linkVars, sessionVars, commVars, bridgeVars, announceVars>>
  /\ UNCHANGED <<suspended, iotCredentials>>

\* HestiaOTA_Web_Start(): loginAttempts = 0, the routes, server.begin().
HestiaOTA_Web_Start ==
  /\ otaMode = "idle"
  /\ otaMode' = "serving"
  /\ loginAttempts' = 0
  /\ otaHist' = OTAHistInit
  /\ UNCHANGED <<linkVars, sessionVars, commVars, bridgeVars, announceVars>>
  /\ UNCHANGED <<suspended, iotCredentials, updateBegun, otaCall>>

\* GET /.
GetRoot ==
  /\ otaMode = "serving"
  /\ Served([route |-> "/", match |-> FALSE, status |-> "",
             sent |-> handleRoot(iotCredentials), ops |-> {}],
            loginAttempts, FALSE, updateBegun, otaHist)

\* POST /login.
PostLogin ==
  /\ otaMode = "serving"
  /\ otaHist.failed < MaxFailedLogins
  /\ \E user \in PostedUsers, pass \in PostedPasses :
       \E r \in {handleLoginPost(loginAttempts, iotCredentials, user, pass)} :
         Served([route |-> "/login",
                 match |-> (user = iotCredentials.user /\ pass = iotCredentials.pass),
                 status |-> "", sent |-> r.sent, ops |-> {}],
                r.attempts, r.restart, updateBegun,
                IF r.sent = "302 /ota" THEN [loggedIn |-> TRUE, failed |-> 0]
                ELSE IF r.sent = "login page, invalid"
                  THEN [otaHist EXCEPT !.failed = @ + 1]
                ELSE otaHist)

\* GET /ota.
GetOta ==
  /\ otaMode = "serving"
  /\ Served([route |-> "/ota", match |-> FALSE, status |-> "",
             sent |-> handleOtaPage, ops |-> {}],
            loginAttempts, FALSE, updateBegun, otaHist)

\* POST /upload: the server calls handleUpload() at the start of the file, for
\* each block of it and at its end.
PostUpload ==
  /\ otaMode = "serving"
  /\ \E status \in UploadStatuses, endOK \in BOOLEAN :
       /\ status # "UPLOAD_FILE_START" => updateBegun
       /\ \E r \in {handleUpload(loginAttempts, status, endOK)} :
            Served([route |-> "/upload", match |-> FALSE, status |-> status,
                    sent |-> r.sent, ops |-> r.ops],
                   r.attempts, r.restart, status # "UPLOAD_FILE_END", otaHist)

\* POST /cancel: rebootDevice().
PostCancel ==
  /\ otaMode = "serving"
  /\ Served([route |-> "/cancel", match |-> FALSE, status |-> "",
             sent |-> "rebooting", ops |-> {}],
            loginAttempts, TRUE, updateBegun, otaHist)

\* More than OTA_TIMEOUT_MS without activity: the serving loop calls rebootDevice().
OTATimeout ==
  /\ otaMode = "serving"
  /\ Served([route |-> "", match |-> FALSE, status |-> "",
             sent |-> "rebooting", ops |-> {}],
            loginAttempts, TRUE, updateBegun, otaHist)

\* ------------------------------------------------------------- environment

\* The access point accepts the station some time after WiFi.begin().
LinkUp ==
  /\ begun
  /\ wifiStatus # WL_CONNECTED
  /\ wifiStatus' = WL_CONNECTED
  /\ UNCHANGED <<begun, everReset, wifiGuard, wifiCall, sessionVars, commVars, bridgeVars, announceVars, otaVars>>

\* The radio link is lost.
LinkDown ==
  /\ wifiStatus = WL_CONNECTED
  /\ wifiStatus' = WL_DISCONNECTED
  /\ UNCHANGED <<begun, everReset, wifiGuard, wifiCall, sessionVars, commVars, bridgeVars, announceVars, otaVars>>

\* The broker session is lost (the broker closes it, or the link under it went).
SessionDrop ==
  /\ clientConnected
  /\ clientConnected' = FALSE
  /\ UNCHANGED <<linkVars, mqttGuard, mqttCall, commVars, bridgeVars, announceVars, otaVars>>

\* millis() advances by d.
Later(d) ==
    /\ wifiGuard' = WiFiGuardLater(wifiGuard, d)
    /\ mqttGuard' = MQTTGuardLater(mqttGuard, d)
    /\ core' = CoreLater(core, d)
    /\ UNCHANGED <<wifiStatus, begun, everReset, wifiCall, clientConnected, mqttCall>>
    /\ UNCHANGED <<mqttFlush, callbackInstalled, BridgeRegistry, coreCall, hist, bridgeVars, announceVars, otaVars>>

Tick == \E d \in Steps : Later(d)

\* The same between two passes of loop(), in steps of the flush window.
CommSteps == {FlushWindow}

CommTick == \E d \in CommSteps : Later(d)

Init ==
  /\ wifiStatus = WL_DISCONNECTED
  /\ begun = FALSE
  /\ everReset = FALSE
  /\ wifiGuard = WiFiGuardInit
  /\ wifiCall = NoWiFiCall
  /\ clientConnected = FALSE
  /\ mqttGuard = MQTTGuardInit
  /\ mqttCall = NoMQTTCall
  /\ core = CoreInit
  /\ mqttFlush = FALSE
  /\ callbackInstalled = FALSE
  /\ BridgeRegistry = RegistryInit
  /\ coreCall = NoCoreCall
  /\ hist = HistInit
  /\ preferences = NoPreferences
  /\ bridgeCall = NoBridgeCall
  /\ g_discoveryJson = config_json
  /\ discoveryCall = NoDiscoveryCall
  /\ announced = 0
  /\ OTAIdle

\* The Wi-Fi guard called on its own, at any rate.
NextLink == Tick \/ LinkUp \/ LinkDown \/ WiFiPoll

SpecLink == Init /\ [][NextLink]_vars

\* The Wi-Fi guard called until it has issued its first WiFi.begin(), and from
\* then on the MQTT guard called on its own, at any rate, the link coming and going.
FirstAttach == ~begun /\ WiFiPoll

NextSession == Tick \/ LinkUp \/ LinkDown \/ SessionDrop \/ FirstAttach \/ MQTTPoll

SpecSession == Init /\ [][NextSession]_vars

\* The same with the application calling disconnectMQTT() at any moment and
\* polling the MQTT guard afterwards, the broker refusing at most MaxFails
\* connections in a row.
MQTTPollFew == MQTTPoll /\ mqttGuard'.tryCount <= MaxFails

NextSuspend ==
  Tick \/ LinkUp \/ LinkDown \/ SessionDrop \/ FirstAttach \/ MQTTPollFew \/ DisconnectMQTT

SpecSuspend == Init /\ [][NextSuspend]_vars

\* The OTA web server on a device with or without credentials, clients sending
\* any request in any order until the device restarts.
InitOTA ==
  /\ wifiStatus = WL_CONNECTED
  /\ begun = TRUE
  /\ everReset = TRUE
  /\ wifiGuard = WiFiGuardInit
  /\ wifiCall = NoWiFiCall
  /\ clientConnected = FALSE
  /\ mqttGuard = MQTTGuardInit
  /\ mqttCall = NoMQTTCall
  /\ core = CoreInit
  /\ mqttFlush = FALSE
  /\ callbackInstalled = FALSE
  /\ BridgeRegistry = RegistryInit
  /\ coreCall = NoCoreCall
  /\ hist = HistInit
  /\ preferences = NoPreferences
  /\ bridgeCall = NoBridgeCall
  /\ g_discoveryJson = config_json
  /\ discoveryCall = NoDiscoveryCall
  /\ announced = 0
  /\ suspended = TRUE
  /\ iotCredentials \in {NoCredentials, ConfiguredCredentials}
  /\ otaMode = "idle"
  /\ loginAttempts = 0
  /\ updateBegun = FALSE
  /\ otaCall = NoOTACall
  /\ otaHist = OTAHistInit

NextOTA ==
  \/ HestiaOTA_Web_Start \/ GetRoot \/ PostLogin \/ GetOta \/ PostUpload
  \/ PostCancel \/ OTATimeout

SpecOTA == InitOTA /\ [][NextOTA]_vars

\* loop() running at any rate, the link and the session coming and going, the
\* hub sending messages.
NextComm == CommTick \/ LinkUp \/ LinkDown \/ SessionDrop \/ Loop \/ messageReceived

SpecComm == Init /\ [][NextComm]_vars

\* loop() called again and again as time passes, the link staying up once it
\* is up, the session still coming and going.
NextLoop == CommTick \/ LinkUp \/ SessionDrop \/ Loop \/ messageReceived

SpecLoopFair == Init /\ [][NextLoop]_vars /\ WF_vars(Loop) /\ WF_vars(CommTick)

\* One entity after setup() on a device with an empty NVS, its methods called
\* in any order.
InitEntity ==
  /\ wifiStatus = WL_DISCONNECTED
  /\ begun = FALSE
  /\ everReset = FALSE
  /\ wifiGuard = WiFiGuardInit
  /\ wifiCall = NoWiFiCall
  /\ clientConnected = FALSE
  /\ mqttGuard = MQTTGuardInit
  /\ mqttCall = NoMQTTCall
  /\ core = CoreInit
  /\ mqttFlush = FALSE
  /\ callbackInstalled = FALSE
  /\ coreCall = NoCoreCall
  /\ hist = HistInit
  /\ preferences = NoPreferences
  /\ bridgeCall = NoBridgeCall
  /\ g_discoveryJson = config_json
  /\ discoveryCall = NoDiscoveryCall
  /\ announced = 0
  /\ OTAIdle
  /\ \E cfg \in EntityConfigs :
       \E e \in init(HAIoTBridge(cfg), NoPreferences) : BridgeRegistry = <<e>>

NextEntity ==
  \/ EntityWrite \/ EntityWriteFloat \/ EntityWriteInt \/ EntityWriteBool
  \/ EntityOnChange \/ EntityReadMQTT \/ EntityReset \/ EntityReboot

SpecEntity == InitEntity /\ [][NextEntity]_vars

\* No payload, one that does not parse, one with an empty component map.
MalformedJsons ==
  {j \in DiscoveryJsons \cup {NoDiscoveryJson} :
     /\ MQTTDiscovery(TRUE, j) = <<>>
     /\ j.err # "NoMemory"
     /\ (j.loaded /\ j.err = "Ok") => (j.device = "object" /\ j.cmps = "object")}

\* loop() called again and again as time passes on a device whose announcement
\* payload does not pass MQTTDiscovery(), the link and the session staying up
\* once they are up.
InitMalformed ==
  /\ wifiStatus = WL_DISCONNECTED
  /\ begun = FALSE
  /\ everReset = FALSE
  /\ wifiGuard = WiFiGuardInit
  /\ wifiCall = NoWiFiCall
  /\ clientConnected = FALSE
  /\ mqttGuard = MQTTGuardInit
  /\ mqttCall = NoMQTTCall
  /\ core = CoreInit
  /\ mqttFlush = FALSE
  /\ callbackInstalled = FALSE
  /\ BridgeRegistry = RegistryInit
  /\ coreCall = NoCoreCall
  /\ hist = HistInit
  /\ preferences = NoPreferences
  /\ bridgeCall = NoBridgeCall
  /\ g_discoveryJson \in MalformedJsons
  /\ discoveryCall = NoDiscoveryCall
  /\ announced = 0
  /\ OTAIdle

NextMalformed == CommTick \/ LinkUp \/ LoopCounted

SpecMalformedFair ==
  InitMalformed /\ [][NextMalformed]_vars /\ WF_vars(LoopCounted) /\ WF_vars(CommTick)

\* The radio link is lost after the announcement has been made.
LinkDownAnnounced == hist.announces > 0 /\ LinkDown

\* loop() running at any rate, the session coming and going and the link lost
\* once announced, the announcements of each session counted.
NextAnnounce == CommTick \/ LinkUp \/ LinkDownAnnounced \/ SessionDrop \/ LoopCounted

SpecAnnounce == Init /\ [][NextAnnounce]_vars

\* The guards polled again and again as time passes: the Wi-Fi guard on a
\* device whose link never attaches, the MQTT guard on one whose link is
\* attached, the broker refusing or dropping the session at will.
WiFiPollDown == wifiStatus # WL_CONNECTED /\ WiFiPoll

MQTTPollUp == wifiStatus = WL_CONNECTED /\ MQTTPoll

InitRetry ==
  /\ wifiStatus \in {WL_DISCONNECTED, WL_CONNECTED}
  /\ begun = (wifiStatus = WL_CONNECTED)
  /\ everReset = FALSE
  /\ wifiGuard = WiFiGuardInit
  /\ wifiCall = NoWiFiCall
  /\ clientConnected = FALSE
  /\ mqttGuard = MQTTGuardInit
  /\ mqttCall = NoMQTTCall
  /\ core = CoreInit
  /\ mqttFlush = FALSE
  /\ callbackInstalled = FALSE
  /\ BridgeRegistry = RegistryInit
  /\ coreCall = NoCoreCall
  /\ hist = HistInit
  /\ preferences = NoPreferences
  /\ bridgeCall = NoBridgeCall
  /\ g_discoveryJson = config_json
  /\ discoveryCall = NoDiscoveryCall
  /\ announced = 0
  /\ OTAIdle

NextRetry == Tick \/ WiFiPollDown \/ MQTTPollUp \/ SessionDrop

SpecRetryFair ==
  InitRetry /\ [][NextRetry]_vars
    /\ WF_vars(Tick) /\ WF_vars(WiFiPollDown) /\ WF_vars(MQTTPollUp)

\* The registry on its own: two entities of any type, with or without the
\* inbound topic of the OTA trigger, and messages on that topic and on others.
DispatchConfigs ==
  [name : {OTAName, HA_onlineName}, type : TypeHA, topicTo : {""},
   topicFrom : {"", "Virgo/OTA/fromHA"}, resolution : {<<>>}, defaultValue : {<<>>}]

DispatchTopics == {"Virgo/OTA/fromHA", "HA/domotique/online"}

\* HestiaCore::onMessageReceived() called with a message.
Dispatch ==
  /\ \E topic \in DispatchTopics, payload \in Payloads :
     \E r \in {onMessageReceived(BridgeRegistry, topic, payload, mqttFlush, preferences)} :
       /\ BridgeRegistry' = r.reg
       /\ preferences' = r.prefs
       /\ bridgeCall' = Called("onMessageReceived", payload, topic, mqttFlush,
                               r.reg # BridgeRegistry, <<>>)
  /\ UNCHANGED <<linkVars, sessionVars, core, mqttFlush, callbackInstalled, coreCall, hist>>
  /\ UNCHANGED <<announceVars, otaVars>>

InitDispatch ==
  /\ wifiStatus = WL_CONNECTED
  /\ begun = TRUE
  /\ everReset = FALSE
  /\ wifiGuard = WiFiGuardInit
  /\ wifiCall = NoWiFiCall
  /\ clientConnected = TRUE
  /\ mqttGuard = MQTTGuardInit
  /\ mqttCall = NoMQTTCall
  /\ mqttFlush \in BOOLEAN
  /\ core = [CoreInit EXCEPT !.stage = IF mqttFlush THEN "Flushing" ELSE "Ready",
                             !.mqttOK = TRUE, !.subscribed = TRUE]
  /\ callbackInstalled = TRUE
  /\ coreCall = NoCoreCall
  /\ hist = HistInit
  /\ preferences = NoPreferences
  /\ bridgeCall = NoBridgeCall
  /\ g_discoveryJson = config_json
  /\ discoveryCall = NoDiscoveryCall
  /\ announced = 0
  /\ OTAIdle
  /\ \E c1, c2 \in DispatchConfigs :
       /\ c1.name # c2.name
       /\ \E e1 \in init(HAIoTBridge(c1), NoPreferences),
             e2 \in init(HAIoTBridge(c2), NoPreferences) : BridgeRegistry = <<e1, e2>>

NextDispatch == Dispatch

SpecDispatch == InitDispatch /\ [][NextDispatch]_vars

\* loadDiscoveryJson(): the application hands over its announcement payload.
loadDiscoveryJson ==
  /\ \E json \in DiscoveryJsons : g_discoveryJson' = json
  /\ UNCHANGED <<linkVars, sessionVars, commVars, bridgeVars, discoveryCall, announced, otaVars>>

\* MQTTDiscovery() called on its own.
DiscoveryCall ==
  /\ discoveryCall' = Announce(clientConnected, g_discoveryJson)
  /\ UNCHANGED <<linkVars, sessionVars, commVars, bridgeVars, g_discoveryJson, announced, otaVars>>

\* The announcement publisher on its own: any payload or none, the session
\* attached or not.
InitDiscovery ==
  /\ wifiStatus = WL_CONNECTED
  /\ begun = TRUE
  /\ everReset = FALSE
  /\ wifiGuard = WiFiGuardInit
  /\ wifiCall = NoWiFiCall
  /\ clientConnected \in BOOLEAN
  /\ mqttGuard = MQTTGuardInit
  /\ mqttCall = NoMQTTCall
  /\ core = CoreInit
  /\ mqttFlush = FALSE
  /\ callbackInstalled = FALSE
  /\ BridgeRegistry = RegistryInit
  /\ coreCall = NoCoreCall
  /\ hist = HistInit
  /\ preferences = NoPreferences
  /\ bridgeCall = NoBridgeCall
  /\ g_discoveryJson \in DiscoveryJsons \cup {NoDiscoveryJson}
  /\ discoveryCall = NoDiscoveryCall
  /\ announced = 0
  /\ OTAIdle

NextDiscovery == loadDiscoveryJson \/ DiscoveryCall \/ SessionDrop

SpecDiscovery == InitDiscovery /\ [][NextDiscovery]_vars

\* ================================================================== claims

\* C1: a call of the Wi-Fi guard returns true exactly when the status it read
\* at entry is WL_CONNECTED; the call that issues WiFi.begin() returns false.
C1_PollTrueIffAttached ==
  /\ wifiCall.ret = (wifiCall.st = WL_CONNECTED)
  /\ "begin" \in wifiCall.ops => ~wifiCall.ret

C1_Witness == wifiCall.st = WL_CONNECTED /\ wifiCall.ret /\ begun

\* A step in which the Wi-Fi guard issues WiFi.begin().
AttachStep ==
  /\ "begin" \in wifiCall'.ops
  /\ wifiGuard'.sinceAttempt = 0
  /\ wifiGuard'.tryCount # wifiGuard.tryCount

\* C2 as stated: any two WiFi.begin() calls are at least 8000 ms apart.
C2_AttachesApart ==
  [][(AttachStep /\ begun) => wifiGuard.sinceAttempt >= AntiSpamWindow]_vars

\* C2 as amended: two consecutive WiFi.begin() calls with no call in between that
\* saw the link attached are at least 8000 ms apart; after a call that saw it
\* attached, the next WiFi.begin() follows the previous one by at least 100 ms.
C2_AttachesApartInFlight ==
  [][(AttachStep /\ begun) =>
       /\ wifiGuard.connecting => wifiGuard.sinceAttempt >= AntiSpamWindow
       /\ wifiGuard.sinceAttempt >= BackoffBase]_vars

C2_Witness == "begin" \in wifiCall.ops /\ wifiGuard.tryCount >= 2

\* The bounds C3 gives for the delay computed with the counter at n.
BackoffWithin(n, delay) ==
  IF n <= 5
    THEN 100 * (2 ^ n) <= delay /\ delay < 100 * (2 ^ n) + 50
    ELSE delay = 10000

\* The bounds hold for every value of the 8-bit counter and of the jitter.
BackoffWithinEverywhere ==
  \A n \in 0 .. (Uint8Mod - 1), j \in 0 .. (JitterMax - 1) :
    BackoffWithin(n, WiFiBackoff(n, j)) /\ BackoffWithin(n, MQTTBackoff(n, j))

\* C3: in both guards the delay computed when the attempt counter has just been
\* incremented to n is in [100*2^n, 100*2^n + 50) for n <= 5 and is 10000 for
\* n > 5: for every value of the 8-bit counter and of the jitter, and in every
\* call that issued WiFi.begin() or whose client.connect() failed.
C3_BackoffBounds ==
  /\ BackoffWithinEverywhere
  /\ "begin" \in wifiCall.ops => BackoffWithin(wifiGuard.tryCount, wifiGuard.delayNext)
  /\ "failed" \in mqttCall.ops => BackoffWithin(mqttGuard.tryCount, mqttGuard.nextDelay)

C3_Witness ==
  /\ "failed" \in mqttCall.ops
  /\ mqttGuard.tryCount > BackoffMaxTry
  /\ mqttGuard.nextDelay = BackoffCeiling

\* C4: while the link is not attached a call of the MQTT guard returns false,
\* configures nothing and connects nothing, and no step taken from a state with
\* the link down changes initialized, wasConnected, tryCount or nextDelay, moves
\* lastAttempt, or opens a session.
C4_NoOpWithoutLink ==
  [][/\ ~mqttCall'.link => (~mqttCall'.ret /\ mqttCall'.ops = {})
     /\ wifiStatus # WL_CONNECTED =>
          /\ mqttGuard'.initialized = mqttGuard.initialized
          /\ mqttGuard'.wasConnected = mqttGuard.wasConnected
          /\ mqttGuard'.tryCount = mqttGuard.tryCount
          /\ mqttGuard'.nextDelay = mqttGuard.nextDelay
          /\ mqttGuard'.sinceAttempt >= mqttGuard.sinceAttempt
          /\ clientConnected' => clientConnected]_vars

C4_Witness ==
  /\ ~mqttCall.link
  /\ wifiStatus # WL_CONNECTED
  /\ mqttGuard.initialized
  /\ mqttGuard.tryCount > 0

\* C5: the call in which client.connect() succeeds returns false; a call returns
\* true exactly when it finds the link attached and the session connected at
\* entry, so the first such call after the connect is the one that returns true.
C5_TrueOnNextPoll ==
  /\ "connected" \in mqttCall.ops => ~mqttCall.ret
  /\ mqttCall.ret = (mqttCall.link /\ mqttCall.conn)

C5_Witness == mqttCall.ret /\ mqttGuard.wasConnected /\ mqttGuard.tryCount = 0

\* The value of the hub-online entity.
HubOnlineValue == get(BridgeRegistry, HA_onlineName).value

\* The values that read as true.
ReadsTrue(v) ==
  v \in {<<"t", "r", "u", "e">>, <<"T", "r", "u", "e">>, <<"T", "R", "U", "E">>,
         <<"o", "n">>, <<"O", "n">>, <<"O", "N">>, <<"1">>}

\* C6: in every attach or reattach cycle newSeqComm() is seen true exactly once,
\* in the pass of loop() that enters Ready: never before Ready, and never again
\* while Ready lasts, however many passes follow.
C6_ReadyEdgeOncePerCycle ==
  /\ core.stage = "Ready" => hist.edges = 1
  /\ core.stage # "Ready" => hist.edges = 0
  /\ coreCall.edge => Has(coreCall.ops, "ready")
  /\ ~core.fineReadyEdge

C6_Witness ==
  /\ core.stage = "Ready" /\ hist.edges = 1
  /\ coreCall.ops = <<>> /\ ~coreCall.edge
  /\ mqttCall.ret

\* C7: InitHAOK() is true only if commOK() is, the announcement step has run,
\* the callback is installed and the topics subscribed, the flush window is over,
\* and setHAInitDone() has been called, all in the current attach cycle.
C7_FineReadyOnlyWhenComplete ==
  InitHAOK(core, BridgeRegistry) =>
    /\ commOK(core, BridgeRegistry)
    /\ hist.announces >= 1
    /\ core.subscribed /\ callbackInstalled
    /\ core.sinceFlush >= FlushWindow /\ ~mqttFlush
    /\ hist.inits >= 1 /\ core.ha_init_done

C7_Witness == InitHAOK(core, BridgeRegistry) /\ core.sinceFlush = FlushWindow

\* The link and the session are attached and the hub-online entity reads true.
Stable == wifiStatus = WL_CONNECTED /\ clientConnected /\ ReadsTrue(HubOnlineValue)

\* C8: with loop() called again and again, from any state with the link and
\* the session attached and the hub online, InitHAOK() becomes true unless one
\* of the three is lost first.
C8_FineReadyEventually ==
  (Stable /\ ~InitHAOK(core, BridgeRegistry)) ~> (InitHAOK(core, BridgeRegistry) \/ ~Stable)

C8_Witness == Stable /\ InitHAOK(core, BridgeRegistry) /\ hist.inits = 1

C10_CoarseReadyAtAttach ==
  core.stage = "AwaitAnnounce" => commOK(core, BridgeRegistry)

\* C10 as amended: from AwaitAnnounce on commOK() is true as soon as the hub-online
\* entity reads true, before discovery, subscription and flush when the entity
\* still holds true from an earlier cycle; until the first subscription after
\* boot the entity holds its default and commOK() is false.
C10_CoarseReadyWhenHubOnline ==
  /\ (core.stage \in {"AwaitAnnounce", "AwaitSubscribe", "Flushing", "Ready"}
        /\ ReadsTrue(HubOnlineValue)) => commOK(core, BridgeRegistry)
  /\ ~callbackInstalled => ~commOK(core, BridgeRegistry)

C10_Witness ==
  /\ core.stage = "AwaitAnnounce" /\ commOK(core, BridgeRegistry)
  /\ ~InitHAOK(core, BridgeRegistry) /\ hist.announces = 0

\* The stages after AwaitSession.
LateStages == {"AwaitAnnounce", "AwaitSubscribe", "Flushing", "Ready"}

\* C11: a pass of loop() in which the Wi-Fi guard reports the link down, or the
\* MQTT guard the session down after AwaitSession, leaves the sequence in
\* AwaitLink with InitHAOK() false and the cycle's steps all to be done again;
\* and a pass enters Ready only from Flushing, with the session reported
\* attached and, since the last restart, one announcement, the subscriptions, a
\* flush window over and one setHAInitDone() call.
C11_LossRestartsSequence ==
  [][/\ (~wifiCall'.ret \/ (core.stage \in LateStages /\ ~mqttCall'.ret)) =>
          /\ core'.stage = "AwaitLink"
          /\ ~InitHAOK(core', BridgeRegistry')
          /\ ~core'.ha_init_done /\ ~core'.subscribed /\ ~mqttFlush'
          /\ hist' = HistInit
     /\ (core.stage # "Ready" /\ core'.stage = "Ready") =>
          /\ core.stage = "Flushing" /\ core.subscribed /\ core.sinceFlush >= FlushWindow
          /\ wifiCall'.ret /\ mqttCall'.ret
          /\ hist'.announces = 1 /\ hist'.inits = 1 /\ hist.inits = 0
    ]_vars

C11_Witness ==
  /\ core.stage = "AwaitLink" /\ coreCall.ops = <<"restart">>
  /\ callbackInstalled /\ wifiCall.ret /\ ~mqttCall.ret /\ "connected" \in mqttCall.ops

\* C12: the topics are subscribed only on a client that has its callback: in
\* the pass that subscribes, startMessageReceived() has been called first.
C12_CallbackBeforeSubscribe ==
  /\ core.subscribed => callbackInstalled
  /\ \A i \in 1 .. Len(coreCall.ops) :
       coreCall.ops[i] = "subscribe" =>
         \E j \in 1 .. (i - 1) : coreCall.ops[j] = "startMessageReceived"

C12_Witness ==
  /\ Has(coreCall.ops, "subscribe") /\ core.subscribed /\ callbackInstalled
  /\ hist.announces = 1 /\ clientConnected

\* The entity on its own, before and after a step.
Entity == BridgeRegistry[1]

\* C13: readMQTT with the flush on, on a HA_CONTROL and its own input topic,
\* returns false, leaves the value, the last-acknowledged value and the NVS as
\* they were and publishes nothing; the same call with the flush off returns
\* true and sets the value to the payload.
C13_FlushDropsControlMessage ==
  [][(/\ bridgeCall'.op = "readMQTT"
      /\ Entity.type = "HA_CONTROL"
      /\ Entity.topicFrom # "" /\ bridgeCall'.topic = Entity.topicFrom) =>
       IF bridgeCall'.flushMode
         THEN /\ ~bridgeCall'.ret /\ bridgeCall'.issued = <<>>
              /\ BridgeRegistry' = BridgeRegistry /\ preferences' = preferences
              /\ LET again == readMQTT(Entity', bridgeCall'.topic, bridgeCall'.arg, FALSE,
                                       preferences')
                 IN again.ret /\ again.e.value = bridgeCall'.arg
         ELSE bridgeCall'.ret /\ Entity'.value = bridgeCall'.arg
    ]_vars

C13_Witness ==
  /\ bridgeCall.op = "readMQTT" /\ bridgeCall.flushMode /\ ~bridgeCall.ret
  /\ Entity.type = "HA_CONTROL" /\ bridgeCall.topic = Entity.topicFrom
  /\ bridgeCall.arg # Entity.value /\ Entity.nvsKey \in DOMAIN preferences

C15_IndicatorAndInternalNeverConsume ==
  [][(bridgeCall'.op = "readMQTT" /\ Entity.type \in {"HA_INDICATOR", "HA_ENTITIES"}) =>
       ~bridgeCall'.ret /\ Entity'.value = Entity.value
    ]_vars

\* C15 as amended: readMQTT on a HA_INDICATOR returns false and changes nothing,
\* for every topic, payload and flush flag; on a HA_ENTITIES it returns true and
\* takes the payload exactly when the topic is its input topic, flush on or off.
C15_IndicatorNeverInternalAlways ==
  [][bridgeCall'.op = "readMQTT" =>
       /\ Entity.type = "HA_INDICATOR" =>
            /\ ~bridgeCall'.ret /\ bridgeCall'.issued = <<>>
            /\ BridgeRegistry' = BridgeRegistry /\ preferences' = preferences
       /\ Entity.type = "HA_ENTITIES" =>
            /\ bridgeCall'.ret = (Entity.topicFrom # "" /\ bridgeCall'.topic = Entity.topicFrom)
            /\ Entity'.value = IF bridgeCall'.ret THEN bridgeCall'.arg ELSE Entity.value
            /\ preferences' = preferences
    ]_vars

C15_Witness ==
  /\ bridgeCall.op = "readMQTT" /\ bridgeCall.flushMode /\ bridgeCall.ret
  /\ Entity.type = "HA_ENTITIES" /\ Entity.value = <<"O", "N">>

\* The methods that set the value of an entity.
ValueSetters == {"write", "writeFloat", "writeInt", "writeBool", "readMQTT", "init"}

\* C16: on a HA_BUTTON onChange() returns true exactly when the value is not
\* empty, and leaves it empty, so the call after it returns false; a write of
\* a text that is not empty leaves that text as the value, and the value goes
\* from empty to not empty only when it is set.
C16_TriggerFiresOnce ==
  [][Entity.type = "HA_BUTTON" =>
       /\ bridgeCall'.op = "onChange" =>
            /\ bridgeCall'.ret = (Entity.value # <<>>)
            /\ Entity'.value = <<>>
            /\ ~onChange(Entity').ret
       /\ (bridgeCall'.op = "write" /\ bridgeCall'.arg # <<>>) =>
            /\ Entity'.value = bridgeCall'.arg
            /\ onChange(Entity').ret /\ ~onChange(onChange(Entity').e).ret
       /\ (Entity.value = <<>> /\ Entity'.value # <<>>) => bridgeCall'.op \in ValueSetters
    ]_vars

C16_Witness ==
  /\ Entity.type = "HA_BUTTON" /\ bridgeCall.op = "onChange" /\ bridgeCall.ret
  /\ Entity.value = <<>> /\ Entity.defaultValue = <<>>

C18_WriteNormalizes ==
  [][bridgeCall'.op = "write" =>
       /\ Entity'.value \in normalize(Entity.decimals, bridgeCall'.arg)
       /\ \A i \in 1 .. Len(bridgeCall'.issued) :
            bridgeCall'.issued[i].val \in normalize(Entity.decimals, bridgeCall'.arg)
    ]_vars

\* The write methods.
Writes == {"write", "writeFloat", "writeInt", "writeBool"}

\* The places of the calls of one kind in what a method issued.
Places(issued, op) == {i \in 1 .. Len(issued) : issued[i].op = op}

\* C19: a write on a HA_CONTROL stores the value in the NVS and then publishes
\* it; on another entity it stores nothing and only publishes; either way the
\* last-acknowledged value becomes the value written.
C19_PersistBeforePublish ==
  [][bridgeCall'.op \in Writes =>
       /\ Entity'.valueMem = Entity'.value
       /\ bridgeCall'.op = "write" => Entity'.value = bridgeCall'.arg
       /\ \A i \in 1 .. Len(bridgeCall'.issued) : bridgeCall'.issued[i].val = Entity'.value
       /\ Places(bridgeCall'.issued, "publishToMQTT") =
            (IF Entity.topicTo = "" THEN {} ELSE {Len(bridgeCall'.issued)})
       /\ IF Entity.type = "HA_CONTROL"
            THEN /\ Places(bridgeCall'.issued, "putString") = {1}
                 /\ preferences' = putString(preferences, Entity.nvsKey, Entity'.value)
            ELSE /\ Places(bridgeCall'.issued, "putString") = {}
                 /\ preferences' = preferences
    ]_vars

C19_Witness ==
  /\ bridgeCall.op = "write" /\ Entity.type = "HA_CONTROL"
  /\ Len(bridgeCall.issued) = 2 /\ bridgeCall.issued[2].op = "publishToMQTT"
  /\ getString(preferences, Entity.nvsKey) = <<"2", ".", "4", "0">>

\* C20 as stated: reset() removes the NVS entry and leaves the entity as it was.
C20_ResetOnlyPersisted ==
  [][bridgeCall'.op = "reset" =>
       /\ preferences' = remove(preferences, Entity.nvsKey)
       /\ BridgeRegistry' = BridgeRegistry
    ]_vars

\* C20 as amended: reset() removes the NVS entry and empties the value and the
\* last-acknowledged value; the initialized flag and the rest stay.
C20_ResetClearsValues ==
  [][bridgeCall'.op = "reset" =>
       /\ preferences' = remove(preferences, Entity.nvsKey)
       /\ Entity.nvsKey \notin DOMAIN preferences'
       /\ Entity' = [Entity EXCEPT !.value = <<>>, !.valueMem = <<>>]
       /\ Entity'.initialized = Entity.initialized
    ]_vars

C20_Witness ==
  /\ bridgeCall.op = "reset" /\ Entity.type = "HA_CONTROL"
  /\ Entity.value = <<>> /\ Entity.defaultValue # <<>> /\ Entity.initialized
  /\ preferences = NoPreferences

\* The sum of the character codes of a name, as a natural number.
RECURSIVE SumOfCodes(_, _)
SumOfCodes(full, i) == IF i = 0 THEN 0 ELSE SumOfCodes(full, i - 1) + charCode(full[i])

\* C21: the NVS key of an entity is its name when the name has at most 15
\* characters, and otherwise the last 14 characters of the name followed by
\* the digit (sum of the character codes of the name) modulo 10.
C21_KeyIsTailAndSumDigit ==
  Entity.nvsKey =
    IF Len(Entity.name) <= 15 THEN Entity.name
    ELSE SubSeq(Entity.name, Len(Entity.name) - 13, Len(Entity.name))
           \o NatString(SumOfCodes(Entity.name, Len(Entity.name)) % 10)

\* C22: MQTTDiscovery() issues no client.publish when the session is not
\* attached, when no payload is loaded, when the payload does not parse, or
\* when it has no device object or no component map holding a component; it
\* issues exactly one, retained and at QoS 1, when all of these pass.
C22_AnnounceOnlyWhenValid ==
  discoveryCall.called =>
    LET j == discoveryCall.json
        pass == /\ discoveryCall.conn /\ j.loaded /\ j.err = "Ok"
                /\ j.device = "object" /\ j.cmps = "object" /\ j.size > 0
    IN IF pass
         THEN /\ Len(discoveryCall.issued) = 1
              /\ discoveryCall.issued[1].retained /\ discoveryCall.issued[1].qos = 1
         ELSE discoveryCall.issued = <<>>

C22_Witness ==
  /\ discoveryCall.called /\ discoveryCall.conn /\ discoveryCall.issued = <<>>
  /\ discoveryCall.json.loaded /\ discoveryCall.json.err = "Ok"
  /\ discoveryCall.json.device = "object" /\ discoveryCall.json.cmps = "object"
  /\ discoveryCall.json.size = 0

C24_MalformedPayloadProceeds ==
  /\ [][announced' > announced =>
          /\ Has(coreCall'.ops, "MQTTDiscovery")
          /\ core.stage = "AwaitAnnounce" /\ core'.stage = "AwaitSubscribe"
          /\ discoveryCall'.called /\ discoveryCall'.issued = <<>>
       ]_vars
  /\ (wifiStatus = WL_CONNECTED) ~> (core.stage = "Ready")

C24_Witness ==
  /\ core.stage = "Ready" /\ announced = 1 /\ g_discoveryJson.loaded
  /\ g_discoveryJson.err = "InvalidInput" /\ core.subscribed

\* The entities that would consume a message, and those a step has changed.
Consumers(topic, payload) ==
  {i \in 1 .. Len(BridgeRegistry) :
     readMQTT(BridgeRegistry[i], topic, payload, mqttFlush, preferences).ret}

Changed == {i \in 1 .. Len(BridgeRegistry) : BridgeRegistry'[i] # BridgeRegistry[i]}

\* C25: onMessageReceived() changes at most one entity, the first in
\* registration order that consumes the message, which takes the payload; a
\* message no entity consumes, and so any message on a topic no entity has,
\* changes no entity and nothing in the NVS.
C25_FirstConsumerOnly ==
  [][bridgeCall'.op = "onMessageReceived" =>
       LET takers == Consumers(bridgeCall'.topic, bridgeCall'.arg)
       IN /\ Len(BridgeRegistry') = Len(BridgeRegistry)
          /\ Cardinality(Changed) <= 1
          /\ \A i \in Changed : i \in takers /\ \A j \in takers : i <= j
          /\ \A i \in takers : (\A j \in takers : i <= j) =>
               BridgeRegistry'[i].value = bridgeCall'.arg
          /\ takers = {} => (BridgeRegistry' = BridgeRegistry /\ preferences' = preferences)
          /\ (\A i \in 1 .. Len(BridgeRegistry) :
                BridgeRegistry[i].topicFrom # bridgeCall'.topic) => takers = {}
    ]_vars

C25_Witness ==
  /\ bridgeCall.op = "onMessageReceived" /\ bridgeCall.ret
  /\ BridgeRegistry[1].topicFrom = bridgeCall.topic
  /\ BridgeRegistry[2].topicFrom = bridgeCall.topic
  /\ BridgeRegistry[1].type = "HA_BUTTON" /\ BridgeRegistry[2].type = "HA_CONTROL"
  /\ BridgeRegistry[1].value = <<"1">> /\ BridgeRegistry[2].value = <<>>

\* A call of the Wi-Fi guard that issues WiFi.begin() or a scan, and a call of
\* the MQTT guard that issues client.connect().
WiFiRetry == WiFiPoll /\ wifiCall'.ops \cap {"begin", "scan"} # {}

MQTTRetry == MQTTPoll /\ "connect" \in mqttCall'.ops

\* C26: with the link never attached and the Wi-Fi guard polled as time
\* passes, the guard issues WiFi.begin() or a scan again and again; with the
\* link attached and the MQTT guard polled, either the session ends up
\* attached for good or the guard calls client.connect() again and again.
C26_GuardsRetryForever ==
  /\ (wifiStatus # WL_CONNECTED) => []<><<WiFiRetry>>_vars
  /\ (wifiStatus = WL_CONNECTED) => (<>[]clientConnected \/ []<><<MQTTRetry>>_vars)

C26_Witness ==
  /\ wifiStatus # WL_CONNECTED /\ wifiGuard.tryCount > ScanAfterTries
  /\ "begin" \in wifiCall.ops /\ "scan" \notin wifiCall.ops
  /\ wifiGuard.delayNext = BackoffCeiling

\* C27: a call of the Wi-Fi guard with the link unattached, the attempt counter
\* at 5 or more and 30000 ms or more since the last scan runs a scan; when
\* the scan finds the SSID the counter restarts from 0 (and is 1 if the same
\* call goes on to WiFi.begin()); when it does not, the call returns false and
\* issues no WiFi.begin().
C27_ScanAfterFiveFailures ==
  [][(/\ WiFiPoll /\ wifiStatus # WL_CONNECTED
      /\ wifiGuard.tryCount >= ScanAfterTries
      /\ wifiGuard.sinceScan >= ScanCooldown) =>
       /\ "scan" \in wifiCall'.ops
       /\ wifiGuard'.sinceScan <= ResetSettle
       /\ wifiGuard'.ssidVisible =>
            wifiGuard'.tryCount = (IF "begin" \in wifiCall'.ops THEN 1 ELSE 0)
       /\ ~wifiGuard'.ssidVisible => (~wifiCall'.ret /\ "begin" \notin wifiCall'.ops)
    ]_vars

\* C28: a call of the Wi-Fi guard with the link unattached, the SSID recorded
\* missing and less than 30000 ms since the scan returns false, issues no
\* scan, no driver reset and no WiFi.begin(), and leaves the guard as it was.
C28_CooldownReturnsAtOnce ==
  [][(/\ WiFiPoll /\ wifiStatus # WL_CONNECTED
      /\ ~wifiGuard.ssidVisible /\ wifiGuard.sinceScan < ScanCooldown) =>
       /\ ~wifiCall'.ret /\ wifiCall'.ops = {}
       /\ wifiGuard' = wifiGuard
    ]_vars

C28_Witness ==
  /\ wifiCall.st # WL_CONNECTED /\ wifiCall.ops = {} /\ ~wifiCall.ret
  /\ ~wifiGuard.ssidVisible /\ wifiGuard.sinceScan < ScanCooldown
  /\ wifiGuard.sinceScan > 0
  /\ wifiGuard.sinceAttempt >= BackoffCeiling /\ wifiGuard.sinceReset > ResetPeriod

C30_ConfiguredOnceBeforeConnect ==
  /\ [][/\ (MQTTPoll /\ "config" \in mqttCall'.ops) => ~mqttGuard.initialized
        /\ (MQTTPoll /\ wifiStatus = WL_CONNECTED /\ ~mqttGuard.initialized) =>
             "config" \in mqttCall'.ops
        /\ (MQTTPoll /\ "connect" \in mqttCall'.ops) => mqttGuard'.initialized
        /\ mqttGuard.initialized => mqttGuard'.initialized
       ]_vars
  /\ []("connect" \in mqttCall.ops => mqttGuard.initialized)

C30_Witness ==
  /\ mqttGuard.initialized /\ "connect" \in mqttCall.ops /\ "config" \notin mqttCall.ops
  /\ mqttGuard.tryCount >= 2

\* C31: a call of the MQTT guard or of disconnectMQTT() leaves WiFi.status(), the
\* radio and the Wi-Fi guard's statics as they were (only time passes, by the
\* delay of the call); disconnectMQTT() closes the session when client.connected()
\* and otherwise issues nothing.
C31_SessionCallsLeaveLink ==
  [][/\ (MQTTPoll \/ DisconnectMQTT) =>
          /\ wifiStatus' = wifiStatus /\ begun' = begun /\ everReset' = everReset
          /\ wifiCall' = wifiCall
          /\ \E d \in {0, InitSettle} : wifiGuard' = WiFiGuardLater(wifiGuard, d)
          /\ mqttCall'.ops \subseteq {"config", "connect", "connected", "failed", "disconnect"}
     /\ DisconnectMQTT =>
          /\ wifiGuard' = wifiGuard /\ mqttGuard' = mqttGuard
          /\ ~clientConnected'
          /\ mqttCall'.ops = IF clientConnected THEN {"disconnect"} ELSE {}
    ]_vars

C31_Witness ==
  /\ suspended /\ mqttCall.ops = {"disconnect"} /\ mqttCall.conn /\ ~clientConnected
  /\ wifiStatus = WL_CONNECTED /\ begun /\ wifiGuard.connecting

\* C32: once disconnectMQTT() has been called, no call of the MQTT guard issues
\* client.connect() and the session stays down.
C32_NoConnectAfterSuspend ==
  [][suspended =>
       /\ MQTTPoll => "connect" \notin mqttCall'.ops
       /\ ~clientConnected'
    ]_vars

\* C34: in the MQTT guard a connect that fails after 5 or more failures in a
\* row (tryCount counts them, being reset only by a success) leaves nextDelay
\* at 10000 ms, however many failures came before.
C34_CeilingAfterAnyFailures ==
  [][(MQTTPoll /\ "failed" \in mqttCall'.ops /\ mqttGuard.tryCount >= BackoffMaxTry) =>
       mqttGuard'.nextDelay = BackoffCeiling
    ]_vars

\* A call of the MQTT guard that issues client.connect().
ConnectStep == MQTTPoll /\ "connect" \in mqttCall'.ops

\* C35: the MQTT guard calls client.connect() only when the time since the last
\* call of it is at least nextDelay, the delay set by that last call; between two
\* calls of client.connect() nextDelay stays and the elapsed time only grows; a
\* failed connect adds one to the 8-bit tryCount, a successful one sets tryCount
\* to 0 and nextDelay to 100.
C35_ConnectOnlyAfterBackoff ==
  [][/\ ConnectStep =>
          LET d == IF "config" \in mqttCall'.ops THEN InitSettle ELSE 0
          IN Older(mqttGuard.sinceAttempt, d, BackoffCeiling) >= mqttGuard.nextDelay
     /\ ConnectStep => mqttGuard'.sinceAttempt = 0
     /\ ~ConnectStep =>
          /\ mqttGuard'.nextDelay = mqttGuard.nextDelay
          /\ mqttGuard'.tryCount = mqttGuard.tryCount
          /\ mqttGuard'.sinceAttempt >= mqttGuard.sinceAttempt
     /\ (ConnectStep /\ "failed" \in mqttCall'.ops) =>
          /\ mqttGuard'.tryCount = (mqttGuard.tryCount + 1) % Uint8Mod
          /\ ~clientConnected'
     /\ (ConnectStep /\ "connected" \in mqttCall'.ops) =>
          /\ mqttGuard'.tryCount = 0
          /\ mqttGuard'.nextDelay = BackoffBase
          /\ clientConnected'
    ]_vars

C35_Witness ==
  /\ mqttCall.ops = {"connect", "failed"}
  /\ mqttGuard.tryCount = 3 /\ mqttGuard.nextDelay >= 800
  /\ mqttGuard.sinceAttempt = 0

\* C36: the Wi-Fi guard issues WiFi.begin() only while the last scan, if there
\* was one, found the SSID (ssidVisible is written by scans only).
C36_NoAttachWhileAbsent ==
  [][(WiFiPoll /\ "begin" \in wifiCall'.ops) => wifiGuard'.ssidVisible]_vars

\* C37: WiFi.begin() has been issued only if the radio driver has been reset
\* (WiFi.disconnect, station mode, hostname) at least once since boot.
C37_ResetBeforeEveryAttach == begun => everReset

\* C38: when a HA_CONTROL entity is restarted right after a write(v) or after
\* it consumed an inbound message v, init() leaves v as its value.
C38_InitRestoresAccepted ==
  [][(/\ bridgeCall'.op = "init" /\ Entity.type = "HA_CONTROL"
      /\ \/ bridgeCall.op = "write"
         \/ bridgeCall.op = "readMQTT" /\ bridgeCall.ret) =>
       Entity'.value = bridgeCall.arg
    ]_vars

\* The call before was a readMQTT that consumed a message differing from the
\* last-acknowledged value of an entity that is not a HA_BUTTON.
InboundChange ==
  /\ bridgeCall.op = "readMQTT" /\ bridgeCall.ret
  /\ Entity.type # "HA_BUTTON"
  /\ bridgeCall.arg # Entity.valueMem

Protected == iotCredentials # NoCredentials

\* C33: with credentials configured, a /login post made when 5 or more /login
\* posts have failed since the last successful one reboots the device whatever
\* credentials it carries, so no more than 5 failures are ever counted; a
\* successful login sets loginAttempts to 0.
C33_FiveLoginAttempts ==
  [][(Protected /\ PostLogin) =>
       /\ otaHist.failed >= MAX_ATTEMPTS =>
            /\ otaMode' = "restarted"
            /\ otaHist'.loggedIn = otaHist.loggedIn
       /\ otaHist'.failed <= MAX_ATTEMPTS
       /\ otaCall'.sent = "302 /ota" => loginAttempts' = 0
    ]_vars

\* C40: with credentials configured, the upload page has been sent for /ota,
\* or a block of firmware written by the upload handler, only if a login has
\* succeeded since HestiaOTA_Web_Start().
C40_UploadOnlyAfterLogin ==
  (/\ Protected
   /\ \/ otaCall.route = "/ota" /\ otaCall.sent = "ota page"
      \/ otaCall.route = "/upload" /\ "Update.write" \in otaCall.ops) =>
    otaHist.loggedIn

====
